---- MODULE Spec2Model ----
(***************************************************************************)
(* mcp-google-sheets: the MCP request dispatcher (main.go), its tool       *)
(* executor and the spreadsheet client it calls (sheets/client.go), the    *)
(* line-oriented main loop, and the OAuth package (oauth/oauth.go).        *)
(*                                                                         *)
(* Spec      one handleRequest call at a time on a server built the way    *)
(*           NewMCPServer or the tests build it.                           *)
(* SpecMain  the process: main's scanner loop over an input stream.        *)
(* SpecBoot  the process from its start: NewMCPServer, then the loop.      *)
(* SpecConc  goroutines calling handleRequest on one server at once.       *)
(* SpecStore oauth: saveToken and loadToken on the token file.             *)
(* SpecAuth  oauth: one GetClient call with the handshake of               *)
(*           getTokenFromWeb.                                              *)
(* SpecConfig oauth: LoadConfig over environments and credential files.    *)
(***************************************************************************)
EXTENDS Integers, Sequences, FiniteSets, TLC

VARIABLES
    sheetsClient,   \* MCPServer.sheetsClient: "nil", "noService" (&sheets.Client{}) or "live"
    line,           \* the wire form of the last request, or NoWire for a direct call
    req,            \* the MCPRequest last passed to handleRequest
    outcome,        \* "idle", "returned" or "panic": how that call ended
    resp,           \* the MCPResponse it returned
    toolErr,        \* the error the tool handler returned to handleToolsCall
    toolResult,     \* the value the tool handler returned to handleToolsCall
    backend,        \* what the spreadsheet service answered to that call
    calls,          \* the backend operations that call invoked, in order
    out,            \* the response as encoded on the wire
    stdin,          \* main: the lines of the input stream
    pos,            \* main: the number of lines the scanner has consumed
    stdout,         \* main: the encoded responses written so far
    served,         \* main: for each written response, the index of the line it answers
    logged,         \* main: the number of "Error parsing request" log lines
    pc,             \* main: "off", "loop", "exit", "fatal" or "panic"
    gor,            \* the goroutines calling handleRequest on one server at once
    fs,             \* oauth: the token file, its directory and the process umask
    lastSave,       \* oauth: the last saveToken call: its token and its error
    lastLoad,       \* oauth: the loadToken call made since then: its token and error
    gc,             \* oauth: where GetClient is: "start" .. "returned"
    gcResult,       \* oauth: what GetClient returned: a client with its token, or an error
    held,           \* oauth: the token or error getTokenFromWeb is about to return
    listener,       \* oauth: the callback server: "none", "pending", "open", "failed", "reported", "closed"
    callbacks,      \* oauth: the callback requests: their code and where their handler is
    arrivals,       \* oauth: the callbacks in the order they reached the listener
    accepted,       \* oauth: the callbacks whose code or error the select received
    exchanges,      \* oauth: the codes passed to config.Exchange
    urlEmitted,     \* oauth: whether the authorization URL was printed
    ctx,            \* oauth: the caller's context: "background", "live" or "done"
    cenv,           \* oauth: the environment variables and credential files LoadConfig sees
    cfg,            \* oauth: what LoadConfig returned
    endpoint,       \* oauth: what the token endpoint answers to an exchange: "grants" or "refuses"
    session,        \* oauth: the number of GetClient calls the process has made
    mux,            \* oauth: whether http.DefaultServeMux has a handler for /oauth/callback
    refresher,      \* oauth: the saveTokenIfRefreshed goroutine: "none", "started" or "ended"
    refreshed       \* oauth: whether the client's transport has refreshed its token

vars == << sheetsClient, line, req, outcome, resp, toolErr, toolResult, backend,
           calls, out, stdin, pos, stdout, served, logged, pc, gor,
           fs, lastSave, lastLoad,
           gc, gcResult, held, listener, callbacks, arrivals, accepted, exchanges,
           urlEmitted, ctx, cenv, cfg, endpoint, session, mux, refresher, refreshed >>

-----------------------------------------------------------------------------
(* Bounds of the model. *)

\* numeric request identifiers range over 0..MaxId
MaxId == 1
\* the input stream of the main loop has at most MaxLines lines
MaxLines == 2

-----------------------------------------------------------------------------
(* Program constants. *)

serverName == "mcp-google-sheets"
serverVersion == "1.0.0"

CodeMethodNotFound == -32601
CodeInvalidParams == -32602
CodeExecution == -32000

\* bufio.NewScanner: the scanner's buffer holds at most 64 KiB of one line
MaxScanTokenSize == 64 * 1024

-----------------------------------------------------------------------------
(* Errors: Go's error values, by their Error() text. *)

NoErr == [nil |-> TRUE, msg |-> ""]
Err(m) == [nil |-> FALSE, msg |-> m]

\* the errors of encoding/json.Unmarshal, by the input that causes them
ErrEndOfInput == Err("unexpected end of JSON input")
ErrSyntax == Err("invalid character 'i' looking for beginning of value")
ErrTypeValue(k) == Err("json: cannot unmarshal " \o k \o " into Go value of type struct")
ErrTypeField(k, f, t) ==
    Err("json: cannot unmarshal " \o k \o " into Go struct field ." \o f \o " of type " \o t)

-----------------------------------------------------------------------------
(* Identifiers: JSON on the wire, interface{} in the program. *)

IdAbsent == [k |-> "absent", n |-> 0, s |-> ""]
IdNull == [k |-> "null", n |-> 0, s |-> ""]
IdNum(i) == [k |-> "num", n |-> i, s |-> ""]
IdStr(t) == [k |-> "str", n |-> 0, s |-> t]

GoNil == [k |-> "nil", n |-> 0, s |-> ""]
GoFloat64(i) == [k |-> "float64", n |-> i, s |-> ""]
GoInt(i) == [k |-> "int", n |-> i, s |-> ""]
GoString(t) == [k |-> "string", n |-> 0, s |-> t]

\* json.Unmarshal into ID interface{}: absent leaves the zero value nil, null
\* stores nil, a number becomes a float64 (exact for every integer of the
\* model, all below 2^53), a string a string
DecodeID(j) ==
    CASE j.k = "absent" -> GoNil
      [] j.k = "null" -> GoNil
      [] j.k = "num" -> GoFloat64(j.n)
      [] OTHER -> GoString(j.s)

\* json.Marshal of ID interface{} `json:"id,omitempty"`: a nil interface is
\* omitted, a float64 or an int is written as a number, a string as a string
EncodeID(g) ==
    CASE g.k = "nil" -> IdAbsent
      [] g.k \in {"float64", "int"} -> IdNum(g.n)
      [] OTHER -> IdStr(g.s)

-----------------------------------------------------------------------------
(* The tool registry: the descriptors handleToolsList builds, in its order. *)
(* properties maps each declared property to its JSON type.                 *)

Descriptor(n, d, p, r) ==
    [name |-> n, description |-> d,
     inputSchema |-> [type |-> "object", properties |-> p, required |-> r]]

ToolRegistry ==
    << Descriptor("read_sheet",
         "Read data from a Google Sheet. Specify the spreadsheet ID and optional range (e.g., 'Sheet1!A1:D10'). If no range is provided, reads the entire first sheet.",
         [spreadsheet_id |-> "string", range |-> "string"],
         << "spreadsheet_id" >>),
       Descriptor("write_sheet",
         "Write data to a Google Sheet. Specify the spreadsheet ID, range, and data as a 2D array. Data overwrites existing content in the range.",
         [spreadsheet_id |-> "string", range |-> "string", values |-> "array"],
         << "spreadsheet_id", "range", "values" >>),
       Descriptor("append_sheet",
         "Append data to a Google Sheet. Adds new rows after the last row with data in the specified range.",
         [spreadsheet_id |-> "string", range |-> "string", values |-> "array"],
         << "spreadsheet_id", "range", "values" >>),
       Descriptor("create_spreadsheet",
         "Create a new Google Spreadsheet with the specified title and optional sheet names.",
         [title |-> "string", sheets |-> "array"],
         << "title" >>),
       Descriptor("get_spreadsheet_info",
         "Get metadata about a spreadsheet including title, sheets, and properties.",
         [spreadsheet_id |-> "string"],
         << "spreadsheet_id" >>),
       Descriptor("add_sheet",
         "Add a new sheet (tab) to an existing spreadsheet.",
         [spreadsheet_id |-> "string", sheet_name |-> "string"],
         << "spreadsheet_id", "sheet_name" >>),
       Descriptor("clear_sheet",
         "Clear all data in a specified range of a Google Sheet.",
         [spreadsheet_id |-> "string", range |-> "string"],
         << "spreadsheet_id", "range" >>),
       Descriptor("batch_update",
         "Perform multiple update operations on a spreadsheet in a single request. Supports formatting, adding sheets, and more complex operations.",
         [spreadsheet_id |-> "string", requests |-> "array"],
         << "spreadsheet_id", "requests" >>) >>

\* mutant of DispatchTable: the clear_sheet case missing from the switch
DispatchTableWithoutClear ==
    { "read_sheet", "write_sheet", "append_sheet", "create_spreadsheet",
      "get_spreadsheet_info", "add_sheet", "batch_update" }

\* the case labels of handleToolsCall's switch on params.Name
DispatchTable ==
    { "read_sheet", "write_sheet", "append_sheet", "create_spreadsheet",
      "get_spreadsheet_info", "add_sheet", "clear_sheet", "batch_update" }

\* the case labels of handleRequest's switch on req.Method
Methods == { "initialize", "tools/list", "tools/call", "ping" }

-----------------------------------------------------------------------------
(* Raw JSON (json.RawMessage) of params and of arguments.                   *)
(* A raw value is "nil" (no bytes: the member was absent), "malformed" (not *)
(* JSON: only a direct caller can pass it), or JSON of kind null, array,    *)
(* number, string or object. An arguments object is the set of its members  *)
(* <<name, kind, text>>; a member's kind is string, number, null, object,   *)
(* empty (the array []), strings, rows (arrays of strings), objects, or     *)
(* badrequests (objects that are no sheets.Request).                        *)

NameMissing == [k |-> "missing", s |-> ""]
NameNull == [k |-> "null", s |-> ""]
NameNumber == [k |-> "number", s |-> ""]
NameString(t) == [k |-> "string", s |-> t]

ArgsRaw(kind, members) == [k |-> kind, f |-> members]
ArgsNil == ArgsRaw("nil", {})
ArgsObject(members) == ArgsRaw("object", members)

ParamsRaw(kind, nm, args) == [k |-> kind, name |-> nm, arguments |-> args]
ParamsNil == ParamsRaw("nil", NameMissing, ArgsNil)
ParamsObject(nm, args) == ParamsRaw("object", nm, args)

\* the JSON type encoding/json names in an UnmarshalTypeError
JsonTypeName(kind) ==
    CASE kind \in {"empty", "strings", "rows", "objects", "badrequests", "array"} -> "array"
      [] OTHER -> kind

\* json.Unmarshal(req.Params, &params) with
\* params struct { Name string; Arguments json.RawMessage }
UnmarshalParams(raw) ==
    CASE raw.k = "nil" -> [err |-> ErrEndOfInput, Name |-> "", Arguments |-> ArgsNil]
      [] raw.k = "malformed" -> [err |-> ErrSyntax, Name |-> "", Arguments |-> ArgsNil]
      [] raw.k = "null" -> [err |-> NoErr, Name |-> "", Arguments |-> ArgsNil]
      [] raw.k = "object" ->
            [err |-> IF raw.name.k \in {"missing", "null", "string"}
                     THEN NoErr
                     ELSE ErrTypeField(raw.name.k, "name", "string"),
             Name |-> IF raw.name.k = "string" THEN raw.name.s ELSE "",
             Arguments |-> raw.arguments]
      [] OTHER -> [err |-> ErrTypeValue(JsonTypeName(raw.k)), Name |-> "", Arguments |-> ArgsNil]

\* the params struct of each tool handler: its JSON members and their Go types
ArgStruct(tool) ==
    CASE tool = "read_sheet" ->
            { <<"spreadsheet_id", "string">>, <<"range", "string">> }
      [] tool \in {"write_sheet", "append_sheet"} ->
            { <<"spreadsheet_id", "string">>, <<"range", "string">>,
              <<"values", "[][]string">> }
      [] tool = "create_spreadsheet" ->
            { <<"title", "string">>, <<"sheets", "[]string">> }
      [] tool = "get_spreadsheet_info" ->
            { <<"spreadsheet_id", "string">> }
      [] tool = "add_sheet" ->
            { <<"spreadsheet_id", "string">>, <<"sheet_name", "string">> }
      [] tool = "clear_sheet" ->
            { <<"spreadsheet_id", "string">>, <<"range", "string">> }
      [] tool = "batch_update" ->
            { <<"spreadsheet_id", "string">>,
              <<"requests", "[]map[string]interface {}">> }
      [] OTHER -> {}

\* whether encoding/json stores a JSON value of this kind in a Go value of this type
Accepts(goType, kind) ==
    CASE kind = "null" -> TRUE
      [] goType = "string" -> kind = "string"
      [] goType = "[]string" -> kind \in {"strings", "empty"}
      [] goType = "[][]string" -> kind \in {"rows", "empty"}
      [] OTHER -> kind \in {"objects", "badrequests", "empty"}

\* the members of an arguments object that the tool's struct cannot store
Rejected(tool, members) ==
    { m \in members : \E t \in ArgStruct(tool) : t[1] = m[1] /\ ~Accepts(t[2], m[2]) }

GoTypeOf(tool, fieldName) ==
    (CHOOSE t \in ArgStruct(tool) : t[1] = fieldName)[2]

\* json.Unmarshal(args, &params) in a tool handler
UnmarshalArgs(tool, args) ==
    CASE args.k = "nil" -> ErrEndOfInput
      [] args.k = "malformed" -> ErrSyntax
      [] args.k = "null" -> NoErr
      [] args.k = "object" ->
            IF Rejected(tool, args.f) = {}
            THEN NoErr
            ELSE LET m == CHOOSE x \in Rejected(tool, args.f) : TRUE
                 IN  ErrTypeField(JsonTypeName(m[2]), m[1], GoTypeOf(tool, m[1]))
      [] OTHER -> ErrTypeValue(JsonTypeName(args.k))

\* the decoded string member: its text, or "" when absent or null
StrArg(args, fieldName) ==
    IF args.k = "object" /\ \E m \in args.f : m[1] = fieldName /\ m[2] = "string"
    THEN (CHOOSE m \in args.f : m[1] = fieldName /\ m[2] = "string")[3]
    ELSE ""

\* the decoded slice member, by its kind: "nil" when absent or null
SliceArg(args, fieldName) ==
    IF args.k = "object" /\ \E m \in args.f : m[1] = fieldName /\ m[2] # "null"
    THEN (CHOOSE m \in args.f : m[1] = fieldName /\ m[2] # "null")[2]
    ELSE "nil"

-----------------------------------------------------------------------------
(* The spreadsheet client (sheets/client.go).                               *)
(* A client is "nil" (no *Client), "noService" (a Client whose service is   *)
(* nil) or "live". An operation ends as [panic, value, err, calls]: calls   *)
(* are the requests it sent to the service. What the service answers is the *)
(* parameter b = [k, e, v]: k = "error" (Do() failed with text e), "ok",    *)
(* "empty" (no values, no replies) or "partial" (a response without the     *)
(* nested message the operation reads); v is the range or id it reports.    *)
(* A value is a map[string]interface{}: its <<key, text>> entries, by key.  *)

Answer(kind, e, v) == [k |-> kind, e |-> e, v |-> v]
NoAnswer == Answer("none", "", "")

Returned(value, err, sent) == [panic |-> FALSE, value |-> value, err |-> err, calls |-> sent]
\* a nil pointer dereference: the goroutine panics and nothing is returned
Panicked(sent) == [panic |-> TRUE, value |-> <<>>, err |-> NoErr, calls |-> sent]

BackendCall(op, spreadsheetID, arg) == [op |-> op, id |-> spreadsheetID, arg |-> arg]

\* c.service.<...>: reading a field through a nil *Client or a nil *sheets.Service
HasService(c) == c = "live"

ReadSheet(c, spreadsheetID, readRange, b) ==
    LET rng == IF readRange = "" THEN "Sheet1" ELSE readRange
        sent == << BackendCall("Spreadsheets.Values.Get", spreadsheetID, rng) >>
    IN  IF ~HasService(c) THEN Panicked(<<>>)
        ELSE IF b.k = "error"
        THEN Returned(<<>>, Err("unable to retrieve data from sheet: " \o b.e), sent)
        ELSE IF b.k = "empty"
        THEN Returned(<< <<"message", "No data found">>, <<"range", b.v>>,
                         <<"values", "[]">> >>, NoErr, sent)
        ELSE Returned(<< <<"col_count", "1">>, <<"range", b.v>>, <<"row_count", "1">>,
                         <<"values", "[[Data]]">> >>, NoErr, sent)

WriteSheet(c, spreadsheetID, writeRange, values, b) ==
    LET sent == << BackendCall("Spreadsheets.Values.Update", spreadsheetID, writeRange) >>
    IN  IF ~HasService(c) THEN Panicked(<<>>)
        ELSE IF b.k = "error"
        THEN Returned(<<>>, Err("unable to write data to sheet: " \o b.e), sent)
        ELSE Returned(<< <<"message", "Data written successfully">>,
                         <<"updated_cells", "1">>, <<"updated_columns", "1">>,
                         <<"updated_range", b.v>>, <<"updated_rows", "1">> >>, NoErr, sent)

AppendSheet(c, spreadsheetID, appendRange, values, b) ==
    LET sent == << BackendCall("Spreadsheets.Values.Append", spreadsheetID, appendRange) >>
    IN  IF ~HasService(c) THEN Panicked(<<>>)
        ELSE IF b.k = "error"
        THEN Returned(<<>>, Err("unable to append data to sheet: " \o b.e), sent)
        ELSE IF b.k = "partial"
        THEN Panicked(sent)      \* resp.Updates is nil: updates.UpdatedRange
        ELSE Returned(<< <<"message", "Data appended successfully">>,
                         <<"updated_cells", "1">>, <<"updated_columns", "1">>,
                         <<"updated_range", b.v>>, <<"updated_rows", "1">> >>, NoErr, sent)

CreateSpreadsheet(c, title, sheetNames, b) ==
    LET sent == << BackendCall("Spreadsheets.Create", "", title) >>
    IN  IF ~HasService(c) THEN Panicked(<<>>)
        ELSE IF b.k = "error"
        THEN Returned(<<>>, Err("unable to create spreadsheet: " \o b.e), sent)
        ELSE IF b.k = "partial"
        THEN Panicked(sent)      \* resp.Properties is nil: resp.Properties.Title
        ELSE Returned(<< <<"message", "Spreadsheet created successfully">>,
                         <<"sheets", "[Sheet1]">>, <<"spreadsheet_id", b.v>>,
                         <<"spreadsheet_url", "https://docs.google.com/spreadsheets/d/" \o b.v>>,
                         <<"title", title>> >>, NoErr, sent)

GetSpreadsheetInfo(c, spreadsheetID, b) ==
    LET sent == << BackendCall("Spreadsheets.Get", spreadsheetID, "") >>
    IN  IF ~HasService(c) THEN Panicked(<<>>)
        ELSE IF b.k = "error"
        THEN Returned(<<>>, Err("unable to retrieve spreadsheet info: " \o b.e), sent)
        ELSE IF b.k = "partial"
        THEN Panicked(sent)      \* a sheet without GridProperties: props.GridProperties.RowCount
        ELSE Returned(<< <<"locale", "en_US">>, <<"sheets", "[]">>,
                         <<"spreadsheet_id", b.v>>,
                         <<"spreadsheet_url", "https://docs.google.com/spreadsheets/d/" \o b.v>>,
                         <<"time_zone", "UTC">>, <<"title", "T">> >>, NoErr, sent)

AddSheet(c, spreadsheetID, sheetName, b) ==
    LET sent == << BackendCall("Spreadsheets.BatchUpdate", spreadsheetID, sheetName) >>
    IN  IF ~HasService(c) THEN Panicked(<<>>)
        ELSE IF b.k = "error"
        THEN Returned(<<>>, Err("unable to add sheet: " \o b.e), sent)
        ELSE IF b.k = "empty"
        THEN Returned(<< <<"message", "Sheet added successfully">> >>, NoErr, sent)
        ELSE Returned(<< <<"index", "1">>, <<"message", "Sheet added successfully">>,
                         <<"sheet_id", "1">>, <<"title", sheetName>> >>, NoErr, sent)

ClearSheet(c, spreadsheetID, clearRange, b) ==
    LET sent == << BackendCall("Spreadsheets.Values.Clear", spreadsheetID, clearRange) >>
    IN  IF ~HasService(c) THEN Panicked(<<>>)
        ELSE IF b.k = "error"
        THEN Returned(<<>>, Err("unable to clear sheet: " \o b.e), sent)
        ELSE Returned(<< <<"cleared_range", b.v>>,
                         <<"message", "Range cleared successfully">> >>, NoErr, sent)

\* requestsData is re-encoded and decoded as a BatchUpdateSpreadsheetRequest
\* before the service is touched
BatchUpdate(c, spreadsheetID, requestsData, b) ==
    LET sent == << BackendCall("Spreadsheets.BatchUpdate", spreadsheetID, "") >>
    IN  IF requestsData = "badrequests"
        THEN Returned(<<>>, Err("unable to unmarshal requests: json: cannot unmarshal string into Go struct field of type sheets.AddSheetRequest"), <<>>)
        ELSE IF ~HasService(c) THEN Panicked(<<>>)
        ELSE IF b.k = "error"
        THEN Returned(<<>>, Err("unable to batch update: " \o b.e), sent)
        ELSE Returned(<< <<"message", "Batch update completed successfully">>,
                         <<"replies_count", "0">>, <<"spreadsheet_id", b.v>> >>, NoErr, sent)

\* what the service can answer to each tool's operation
Answers(tool) ==
    { Answer("error", "googleapi: Error 404: Requested entity was not found.", ""),
      Answer("ok", "", "Sheet1!A1:B2") }
    \cup (IF tool \in {"read_sheet", "add_sheet"}
          THEN { Answer("empty", "", "Sheet1!A1:B2") } ELSE {})
    \cup (IF tool \in {"append_sheet", "create_spreadsheet", "get_spreadsheet_info"}
          THEN { Answer("partial", "", "Sheet1!A1:B2") } ELSE {})

-----------------------------------------------------------------------------
(* The tool handlers of main.go: decode the arguments, call the client.     *)

DecodeFailed(err) == Returned(<<>>, err, <<>>)

handleReadSheet(c, args, b) ==
    LET err == UnmarshalArgs("read_sheet", args)
    IN  IF ~err.nil THEN DecodeFailed(err)
        ELSE ReadSheet(c, StrArg(args, "spreadsheet_id"), StrArg(args, "range"), b)

handleWriteSheet(c, args, b) ==
    LET err == UnmarshalArgs("write_sheet", args)
    IN  IF ~err.nil THEN DecodeFailed(err)
        ELSE WriteSheet(c, StrArg(args, "spreadsheet_id"), StrArg(args, "range"),
                        SliceArg(args, "values"), b)

handleAppendSheet(c, args, b) ==
    LET err == UnmarshalArgs("append_sheet", args)
    IN  IF ~err.nil THEN DecodeFailed(err)
        ELSE AppendSheet(c, StrArg(args, "spreadsheet_id"), StrArg(args, "range"),
                         SliceArg(args, "values"), b)

handleCreateSpreadsheet(c, args, b) ==
    LET err == UnmarshalArgs("create_spreadsheet", args)
    IN  IF ~err.nil THEN DecodeFailed(err)
        ELSE CreateSpreadsheet(c, StrArg(args, "title"), SliceArg(args, "sheets"), b)

handleGetSpreadsheetInfo(c, args, b) ==
    LET err == UnmarshalArgs("get_spreadsheet_info", args)
    IN  IF ~err.nil THEN DecodeFailed(err)
        ELSE GetSpreadsheetInfo(c, StrArg(args, "spreadsheet_id"), b)

handleAddSheet(c, args, b) ==
    LET err == UnmarshalArgs("add_sheet", args)
    IN  IF ~err.nil THEN DecodeFailed(err)
        ELSE AddSheet(c, StrArg(args, "spreadsheet_id"), StrArg(args, "sheet_name"), b)

handleClearSheet(c, args, b) ==
    LET err == UnmarshalArgs("clear_sheet", args)
    IN  IF ~err.nil THEN DecodeFailed(err)
        ELSE ClearSheet(c, StrArg(args, "spreadsheet_id"), StrArg(args, "range"), b)

handleBatchUpdate(c, args, b) ==
    LET err == UnmarshalArgs("batch_update", args)
    IN  IF ~err.nil THEN DecodeFailed(err)
        ELSE BatchUpdate(c, StrArg(args, "spreadsheet_id"), SliceArg(args, "requests"), b)

-----------------------------------------------------------------------------
(* Responses (MCPResponse, MCPError).                                       *)
(* Result and Error are nil or set; a set Result is tagged by its shape.    *)

NoResult == [nil |-> TRUE, kind |-> "none", v |-> <<>>]
Result(kind, v) == [nil |-> FALSE, kind |-> kind, v |-> v]

NoError == [nil |-> TRUE, code |-> 0, message |-> "", hasData |-> FALSE, data |-> ""]
MCPError(code, message) ==
    [nil |-> FALSE, code |-> code, message |-> message, hasData |-> FALSE, data |-> ""]
MCPErrorData(code, message, data) ==
    [nil |-> FALSE, code |-> code, message |-> message, hasData |-> TRUE, data |-> data]

MCPResponse(id, result, error) ==
    [jsonrpc |-> "2.0", id |-> id, result |-> result, error |-> error]

NoResponse == MCPResponse(GoNil, NoResult, NoError)

\* fmt.Sprintf("%v", result) of a map[string]interface{}: map[k:v k:v], by key
RECURSIVE FmtEntries(_)
FmtEntries(m) ==
    IF m = <<>> THEN ""
    ELSE m[1][1] \o ":" \o m[1][2] \o (IF Len(m) > 1 THEN " " ELSE "") \o FmtEntries(Tail(m))

FmtV(value) == "map[" \o FmtEntries(value) \o "]"

\* mutant of PingResponse: the empty result map left nil
PingResponseNilResult(r) == MCPResponse(r.id, NoResult, NoError)

\* handleRequest, case "ping"
PingResponse(r) == MCPResponse(r.id, Result("ping", <<>>), NoError)

\* handleRequest, default
MethodNotFoundResponse(r) ==
    MCPResponse(r.id, NoResult, MCPError(CodeMethodNotFound, "Method not found: " \o r.method))

\* mutant of handleInitialize: the protocol version taken from the request
\* when it carries params
handleInitializeNegotiated(r) ==
    MCPResponse(r.id,
                Result("initialize",
                       [protocolVersion |-> IF r.params = ParamsNil THEN "2024-11-05"
                                            ELSE "requested",
                        serverInfo |-> [name |-> serverName, version |-> serverVersion],
                        capabilities |-> [tools |-> {}]]),
                NoError)

handleInitialize(r) ==
    MCPResponse(r.id,
                Result("initialize",
                       [protocolVersion |-> "2024-11-05",
                        serverInfo |-> [name |-> serverName, version |-> serverVersion],
                        capabilities |-> [tools |-> {}]]),
                NoError)

\* mutant of handleToolsList: the last descriptor left out of the listing
handleToolsListTruncated(r) ==
    MCPResponse(r.id, Result("tools", [tools |-> SubSeq(ToolRegistry, 1, Len(ToolRegistry) - 1)]),
                NoError)

handleToolsList(r) == MCPResponse(r.id, Result("tools", [tools |-> ToolRegistry]), NoError)

\* handleToolsCall: params did not decode
InvalidParamsResponse(r, err) ==
    MCPResponse(r.id, NoResult, MCPErrorData(CodeInvalidParams, "Invalid params", err.msg))

\* handleToolsCall: switch default
ToolNotFoundResponse(r, name) ==
    MCPResponse(r.id, NoResult, MCPError(CodeMethodNotFound, "Tool not found: " \o name))

\* mutant of ExecutionErrorResponse: a fixed message, the failure moved to data
ExecutionErrorResponseWithData(r, err) ==
    MCPResponse(r.id, NoResult, MCPErrorData(CodeExecution, "Tool execution failed", err.msg))

\* handleToolsCall: err != nil
ExecutionErrorResponse(r, err) ==
    MCPResponse(r.id, NoResult, MCPError(CodeExecution, err.msg))

\* mutant of ContentResponse: the value's entries without fmt's map[...] form
ContentResponseUnformatted(r, value) ==
    MCPResponse(r.id,
                Result("content", [content |-> << [type |-> "text", text |-> FmtEntries(value)] >>]),
                NoError)

\* handleToolsCall: the result as protocol content
ContentResponse(r, value) ==
    MCPResponse(r.id,
                Result("content", [content |-> << [type |-> "text", text |-> FmtV(value)] >>]),
                NoError)

\* handleToolsCall: the switch on params.Name, for a name that has a case
InvokeTool(c, name, args, b) ==
    CASE name = "read_sheet" -> handleReadSheet(c, args, b)
      [] name = "write_sheet" -> handleWriteSheet(c, args, b)
      [] name = "append_sheet" -> handleAppendSheet(c, args, b)
      [] name = "create_spreadsheet" -> handleCreateSpreadsheet(c, args, b)
      [] name = "get_spreadsheet_info" -> handleGetSpreadsheetInfo(c, args, b)
      [] name = "add_sheet" -> handleAddSheet(c, args, b)
      [] name = "clear_sheet" -> handleClearSheet(c, args, b)
      [] OTHER -> handleBatchUpdate(c, args, b)

\* how a handler call ends: a response, or a panic that unwinds the caller
Handled(response, err, value, sent) ==
    [panic |-> FALSE, resp |-> response, toolErr |-> err, toolResult |-> value, calls |-> sent]
Unwound(sent) ==
    [panic |-> TRUE, resp |-> NoResponse, toolErr |-> NoErr, toolResult |-> <<>>, calls |-> sent]

handleToolsCall(c, r, b) ==
    LET params == UnmarshalParams(r.params)
    IN  IF ~params.err.nil
        THEN Handled(InvalidParamsResponse(r, params.err), NoErr, <<>>, <<>>)
        ELSE IF params.Name \notin DispatchTable
        THEN Handled(ToolNotFoundResponse(r, params.Name), NoErr, <<>>, <<>>)
        ELSE LET t == InvokeTool(c, params.Name, params.Arguments, b)
             IN  IF t.panic THEN Unwound(t.calls)
                 ELSE IF ~t.err.nil
                 THEN Handled(ExecutionErrorResponse(r, t.err), t.err, <<>>, t.calls)
                 ELSE Handled(ContentResponse(r, t.value), NoErr, t.value, t.calls)

\* mutant of handleRequest: the method matched without regard to case
handleRequestFoldCase(c, r, b) ==
    CASE r.method \in {"initialize", "Initialize"} -> Handled(handleInitialize(r), NoErr, <<>>, <<>>)
      [] r.method \in {"tools/list", "TOOLS/LIST"} -> Handled(handleToolsList(r), NoErr, <<>>, <<>>)
      [] r.method \in {"tools/call", "TOOLS/CALL"} -> handleToolsCall(c, r, b)
      [] r.method \in {"ping", "Ping"} -> Handled(PingResponse(r), NoErr, <<>>, <<>>)
      [] OTHER -> Handled(MethodNotFoundResponse(r), NoErr, <<>>, <<>>)

handleRequest(c, r, b) ==
    CASE r.method = "initialize" -> Handled(handleInitialize(r), NoErr, <<>>, <<>>)
      [] r.method = "tools/list" -> Handled(handleToolsList(r), NoErr, <<>>, <<>>)
      [] r.method = "tools/call" -> handleToolsCall(c, r, b)
      [] r.method = "ping" -> Handled(PingResponse(r), NoErr, <<>>, <<>>)
      [] OTHER -> Handled(MethodNotFoundResponse(r), NoErr, <<>>, <<>>)

-----------------------------------------------------------------------------
(* The wire: a request line is decoded into an MCPRequest, a response is    *)
(* encoded by encoding/json with the struct tags of MCPResponse.            *)

MCPRequest(id, method, params) ==
    [jsonrpc |-> "2.0", id |-> id, method |-> method, params |-> params]

\* the JSON object of a request line: its id, method and params members
WireRequest(id, method, params) ==
    [id |-> id, method |-> method, params |-> params, direct |-> FALSE]
NoWire == [id |-> IdAbsent, method |-> "", params |-> ParamsNil, direct |-> TRUE]

\* json.Unmarshal(line, &req)
DecodeRequest(w) == MCPRequest(DecodeID(w.id), w.method, w.params)

\* json.Marshal(resp): id, result and error are omitempty (a nil interface
\* and a nil pointer are empty; an empty map held in the interface is not);
\* data is omitempty inside the error
EncodeResponse(p) ==
    [jsonrpc |-> p.jsonrpc,
     id |-> EncodeID(p.id),
     hasResult |-> ~p.result.nil,
     result |-> p.result,
     hasError |-> ~p.error.nil,
     error |-> p.error]

NoOutput == EncodeResponse(NoResponse)

-----------------------------------------------------------------------------
(* The requests the model draws from.                                       *)

WireIds == { IdAbsent, IdNull, IdStr("abc-123") } \cup { IdNum(i) : i \in 0..MaxId }

\* a direct caller builds the MCPRequest itself: ID: 1 is a Go int
DirectIds == { GoString("test-123") } \cup { GoInt(i) : i \in 1..MaxId }

MethodNames ==
    Methods \cup { "", "Ping", "TOOLS/CALL", "nonexistent_method" }

ToolNames == DispatchTable \cup { "", "Read_Sheet", "nonexistent_tool" }

Member(n, kind, text) == << n, kind, text >>

\* an arguments object every tool's struct decodes
ArgsValid ==
    ArgsObject({ Member("spreadsheet_id", "string", "test-id"),
                 Member("range", "string", "A1"),
                 Member("values", "rows", ""),
                 Member("title", "string", "Test"),
                 Member("sheets", "strings", ""),
                 Member("sheet_name", "string", "New"),
                 Member("requests", "objects", "") })

ArgumentValues ==
    { ArgsNil, ArgsRaw("null", {}), ArgsRaw("array", {}),
      ArgsObject({}),
      ArgsValid,
      ArgsObject({ Member("spreadsheet_id", "number", ""), Member("title", "number", "") }),
      ArgsObject({ Member("spreadsheet_id", "string", "test-id"),
                   Member("values", "strings", ""),
                   Member("sheets", "object", ""),
                   Member("unknown", "number", "") }),
      ArgsObject({ Member("spreadsheet_id", "string", "test-id"),
                   Member("requests", "badrequests", "") }) }

\* params as a request line can carry them: any JSON, or none
WireParams ==
    { ParamsNil,
      ParamsRaw("null", NameMissing, ArgsNil),
      ParamsRaw("array", NameMissing, ArgsNil),
      ParamsRaw("number", NameMissing, ArgsNil),
      ParamsRaw("string", NameMissing, ArgsNil),
      ParamsObject(NameMissing, ArgsValid),
      ParamsObject(NameNull, ArgsValid),
      ParamsObject(NameNumber, ArgsValid) }
    \cup { ParamsObject(NameString(n), ArgsValid) : n \in ToolNames }

\* the same tools with every shape of arguments
WireArgParams ==
    { ParamsObject(NameString(n), a) :
        n \in { "read_sheet", "create_spreadsheet", "batch_update" },
        a \in ArgumentValues }

\* a direct caller can also pass bytes that are no JSON
DirectParams ==
    { ParamsRaw("malformed", NameMissing, ArgsNil),
      ParamsNil,
      ParamsObject(NameString("nonexistent_tool"), ArgsObject({})),
      ParamsObject(NameString("read_sheet"),
                   ArgsObject({ Member("spreadsheet_id", "string", "test-id") })) }

\* the other methods ignore params: two shapes of them are enough
FewParams == { ParamsNil, ParamsObject(NameString("read_sheet"), ArgsValid) }

WireRequests ==
    { WireRequest(i, "tools/call", p) : i \in WireIds, p \in WireParams }
    \cup { WireRequest(i, "tools/call", p) : i \in { IdNull, IdStr("abc-123") },
                                             p \in WireArgParams }
    \cup { WireRequest(i, m, p) : i \in WireIds, m \in MethodNames \ {"tools/call"},
                                  p \in FewParams }

DirectRequests ==
    { MCPRequest(i, "tools/call", p) : i \in DirectIds, p \in DirectParams }
    \cup { MCPRequest(i, m, ParamsRaw("malformed", NameMissing, ArgsNil)) :
             i \in DirectIds, m \in MethodNames \ {"tools/call"} }

\* the answers the service may give to the request, if it gets as far as a tool
AnswersFor(r) ==
    LET params == UnmarshalParams(r.params)
    IN  IF r.method = "tools/call" /\ params.err.nil /\ params.Name \in DispatchTable
        THEN Answers(params.Name)
        ELSE { NoAnswer }

-----------------------------------------------------------------------------
(* Spec: calls of handleRequest.                                            *)

\* the state of the parts of the program that Spec and SpecMain do not run
storeVars == << fs, lastSave, lastLoad >>
procVars == << endpoint, session, mux, refresher, refreshed >>
flowVars == << gc, gcResult, held, listener, callbacks, arrivals, accepted, exchanges,
              urlEmitted, ctx, procVars >>
\* the process has made no GetClient call
ProcIdle ==
    /\ endpoint = "none"
    /\ session = 0
    /\ mux = FALSE
    /\ refresher = "none"
    /\ refreshed = FALSE
\* no GetClient call has been made
FlowIdle ==
    /\ gc = "start"
    /\ gcResult = <<>>
    /\ held = <<>>
    /\ listener = "none"
    /\ callbacks = <<>>
    /\ arrivals = <<>>
    /\ accepted = <<>>
    /\ exchanges = <<>>
    /\ urlEmitted = FALSE
    /\ ctx = "background"
    /\ ProcIdle
configVars == << cenv, cfg >>
\* LoadConfig has not been called
ConfigIdle ==
    /\ cenv = <<>>
    /\ cfg = <<>>
restVars == << gor, storeVars, flowVars, configVars >>
RestIdle ==
    /\ gor = <<>>
    /\ fs = <<>>
    /\ lastSave = <<>>
    /\ lastLoad = <<>>
    /\ FlowIdle
    /\ ConfigIdle

mainVars == << stdin, pos, stdout, served, logged, pc >>
callVars == << line, req, outcome, resp, toolErr, toolResult, backend, calls, out >>

\* one call s.handleRequest(r) whose backend operation, if any, is answered b
Call(w, r, b) ==
    LET h == handleRequest(sheetsClient, r, b)
    IN  /\ line' = w
        /\ req' = r
        /\ outcome' = IF h.panic THEN "panic" ELSE "returned"
        /\ resp' = h.resp
        /\ toolErr' = h.toolErr
        /\ toolResult' = h.toolResult
        /\ calls' = h.calls
        /\ backend' = IF h.calls = <<>> THEN NoAnswer ELSE b
        /\ out' = IF h.panic THEN NoOutput ELSE EncodeResponse(h.resp)
        /\ UNCHANGED sheetsClient

IdleCall ==
    /\ line = NoWire
    /\ req = MCPRequest(GoNil, "", ParamsNil)
    /\ outcome = "idle"
    /\ resp = NoResponse
    /\ toolErr = NoErr
    /\ toolResult = <<>>
    /\ backend = NoAnswer
    /\ calls = <<>>
    /\ out = NoOutput

\* a server as NewMCPServer ("live") or a test's struct literal builds it
Init ==
    /\ sheetsClient \in { "nil", "noService", "live" }
    /\ IdleCall
    /\ stdin = <<>>
    /\ pos = 0
    /\ stdout = <<>>
    /\ served = <<>>
    /\ logged = 0
    /\ pc = "off"
    /\ RestIdle

\* a request that arrived as a line: decoded, handled, the response encoded
HandleWire ==
    /\ pc = "off"
    /\ \E w \in WireRequests :
         \E b \in AnswersFor(DecodeRequest(w)) : Call(w, DecodeRequest(w), b)
    /\ UNCHANGED << mainVars, restVars >>

\* a request built by the caller, as the tests build it
HandleDirect ==
    /\ pc = "off"
    /\ \E r \in DirectRequests : \E b \in AnswersFor(r) : Call(NoWire, r, b)
    /\ UNCHANGED << mainVars, restVars >>

Next == HandleWire \/ HandleDirect

Spec == Init /\ [][Next]_vars

-----------------------------------------------------------------------------
(* SpecMain: the process. main builds the server, then reads the input     *)
(* stream line by line with a bufio.Scanner until it ends.                  *)

\* a line of the input: its bytes are empty ("blank"), no JSON object that
\* decodes as an MCPRequest ("malformed"), or a request; len is its length
InputLine(kind, len, w) == [kind |-> kind, len |-> len, w |-> w]

ShortLen == 40
LongLen == MaxScanTokenSize + ShortLen

InputLines ==
    { InputLine("blank", 0, NoWire),
      InputLine("malformed", ShortLen, NoWire),
      InputLine("malformed", LongLen, NoWire),
      InputLine("request", ShortLen, WireRequest(IdNum(MaxId), "ping", ParamsNil)),
      InputLine("request", LongLen, WireRequest(IdNum(MaxId), "ping", ParamsNil)),
      InputLine("request", ShortLen, WireRequest(IdNull, "nonexistent_method", ParamsNil)),
      InputLine("request", ShortLen,
                WireRequest(IdStr("abc-123"), "tools/call",
                            ParamsObject(NameString("read_sheet"), ArgsValid))),
      InputLine("request", ShortLen,
                WireRequest(IdNum(0), "tools/call",
                            ParamsObject(NameString("get_spreadsheet_info"), ArgsValid))),
      InputLine("request", ShortLen,
                WireRequest(IdAbsent, "tools/call", ParamsRaw("null", NameMissing, ArgsNil))) }

InputStreams == UNION { [1..n -> InputLines] : n \in 0..MaxLines }

\* main after NewMCPServer succeeded: the client wraps a service
InitMain ==
    /\ sheetsClient = "live"
    /\ IdleCall
    /\ stdin \in InputStreams
    /\ pos = 0
    /\ stdout = <<>>
    /\ served = <<>>
    /\ logged = 0
    /\ pc = "loop"
    /\ RestIdle

\* scanner.Scan() fails on a line that does not fit its buffer
TooLong(l) == l.len >= MaxScanTokenSize

Scanning == pc = "loop" /\ pos < Len(stdin)
Current == stdin[pos + 1]

\* Scan returns false with ErrTooLong: the loop ends, scanner.Err() is fatal
ScanTooLong ==
    /\ Scanning
    /\ TooLong(Current)
    /\ pc' = "fatal"
    /\ UNCHANGED << sheetsClient, callVars, stdin, pos, stdout, served, logged, restVars >>

\* len(line) == 0: continue
SkipBlank ==
    /\ Scanning
    /\ ~TooLong(Current)
    /\ Current.len = 0
    /\ pos' = pos + 1
    /\ UNCHANGED << sheetsClient, callVars, stdin, stdout, served, logged, pc, restVars >>

\* json.Unmarshal(line, &req) fails: log and continue
SkipMalformed ==
    /\ Scanning
    /\ ~TooLong(Current)
    /\ Current.len > 0
    /\ Current.kind = "malformed"
    /\ pos' = pos + 1
    /\ logged' = logged + 1
    /\ UNCHANGED << sheetsClient, callVars, stdin, stdout, served, pc, restVars >>

\* the line decodes: handle it and encode the response to stdout; a panic in
\* the handler is not recovered and ends the process
ServeRequest ==
    /\ Scanning
    /\ ~TooLong(Current)
    /\ Current.len > 0
    /\ Current.kind = "request"
    /\ \E b \in AnswersFor(DecodeRequest(Current.w)) :
         Call(Current.w, DecodeRequest(Current.w), b)
    /\ pos' = pos + 1
    /\ IF outcome' = "panic"
       THEN pc' = "panic" /\ UNCHANGED << stdout, served >>
       ELSE /\ stdout' = Append(stdout, out')
            /\ served' = Append(served, pos + 1)
            /\ UNCHANGED pc
    /\ UNCHANGED << stdin, logged, restVars >>

\* Scan returns false at the end of the input: main returns
EndOfInput ==
    /\ pc = "loop"
    /\ pos = Len(stdin)
    /\ pc' = "exit"
    /\ UNCHANGED << sheetsClient, callVars, stdin, pos, stdout, served, logged, restVars >>

NextMain == ScanTooLong \/ SkipBlank \/ SkipMalformed \/ ServeRequest \/ EndOfInput

SpecMain == InitMain /\ [][NextMain]_vars

-----------------------------------------------------------------------------
(* SpecConc: goroutines that call handleRequest on one server at the same   *)
(* time, as the concurrency tests start them.                               *)

\* the number of goroutines
NumCalls == 3
Goroutines == 1..NumCalls

\* the methods the concurrent callers use
ConcMethods == { "ping", "initialize", "tools/list" }

\* mutant of Goroutine: the closure reads the loop variable the goroutines
\* share instead of its own argument
GoroutineSharedLoopVar(i, m) ==
    [req |-> MCPRequest(GoInt(NumCalls), m, ParamsNil), at |-> "spawned", resp |-> NoResponse]

\* go func(id int) { req := MCPRequest{ID: id, Method: m}; ... }(i)
Goroutine(i, m) ==
    [req |-> MCPRequest(GoInt(i), m, ParamsNil), at |-> "spawned", resp |-> NoResponse]

InitConc ==
    /\ sheetsClient \in { "nil", "live" }
    /\ IdleCall
    /\ stdin = <<>>
    /\ pos = 0
    /\ stdout = <<>>
    /\ served = <<>>
    /\ logged = 0
    /\ pc = "off"
    /\ gor \in { [i \in Goroutines |-> Goroutine(i, f[i])] : f \in [Goroutines -> ConcMethods] }
    /\ fs = <<>>
    /\ lastSave = <<>>
    /\ lastLoad = <<>>
    /\ FlowIdle
    /\ ConfigIdle

\* the goroutine is scheduled and calls server.handleRequest(req): the request
\* is passed by value, the receiver is the shared *MCPServer
EnterHandleRequest(i) ==
    /\ gor[i].at = "spawned"
    /\ gor' = [gor EXCEPT ![i].at = "called"]
    /\ UNCHANGED << sheetsClient, callVars, mainVars, storeVars, flowVars, configVars >>

\* the call runs to its return: everything it reads is its own copy of the
\* request and the server's fields, and it writes only its return value
ReturnHandleRequest(i) ==
    /\ gor[i].at = "called"
    /\ gor' = [gor EXCEPT ![i].at = "returned",
                          ![i].resp = handleRequest(sheetsClient, gor[i].req, NoAnswer).resp]
    /\ UNCHANGED << sheetsClient, callVars, mainVars, storeVars, flowVars, configVars >>

NextConc == \E i \in Goroutines : EnterHandleRequest(i) \/ ReturnHandleRequest(i)

SpecConc == InitConc /\ [][NextConc]_vars

-----------------------------------------------------------------------------
(* oauth: the credential store, Config.loadToken and Config.saveToken on   *)
(* the file Config.TokenFile.                                               *)

\* file modes, as the set of permission bits they grant
GroupOtherBits == { "gr", "gw", "gx", "or", "ow", "ox" }
Perm0700 == { "ur", "uw", "ux" }
Perm0600 == { "ur", "uw" }
Perm0755 == Perm0700 \cup { "gr", "gx", "or", "ox" }
Perm0644 == Perm0600 \cup { "gr", "or" }
Perm0500 == { "ur", "ux" }
Perm0200 == { "uw" }
Umask022 == { "gw", "ow" }
Umask077 == GroupOtherBits

\* oauth2.Token, the fields that are stored
Token(a, t, r, e) == [AccessToken |-> a, TokenType |-> t, RefreshToken |-> r, Expiry |-> e]
ZeroTime == "0001-01-01T00:00:00Z"
ZeroToken == Token("", "", "", ZeroTime)

\* the bytes of a file: a JSON object by its members, or what else it holds
NoMembers == [n \in {} |-> ""]
Data(k, members) == [k |-> k, members |-> members]
EmptyData == Data("empty", NoMembers)
GarbageData == Data("garbage", NoMembers)
NullData == Data("null", NoMembers)

\* mutant of EncodeToken: the token type is not written
EncodeTokenWithoutType(tok) ==
    LET names == { "access_token", "expiry" }
                 \cup (IF tok.RefreshToken # "" THEN { "refresh_token" } ELSE {})
    IN  Data("object",
             [n \in names |-> CASE n = "access_token" -> tok.AccessToken
                                [] n = "refresh_token" -> tok.RefreshToken
                                [] n = "expiry" -> tok.Expiry])

\* json.NewEncoder(f).Encode(token): token_type and refresh_token are
\* omitempty, access_token and expiry are always written
EncodeToken(tok) ==
    LET names == { "access_token", "expiry" }
                 \cup (IF tok.TokenType # "" THEN { "token_type" } ELSE {})
                 \cup (IF tok.RefreshToken # "" THEN { "refresh_token" } ELSE {})
    IN  Data("object",
             [n \in names |-> CASE n = "access_token" -> tok.AccessToken
                                [] n = "token_type" -> tok.TokenType
                                [] n = "refresh_token" -> tok.RefreshToken
                                [] n = "expiry" -> tok.Expiry])

\* a member of the object, or the field's zero value when it is absent
Field(members, n, zero) == IF n \in DOMAIN members THEN members[n] ELSE zero

\* json.NewDecoder(f).Decode(token) into a fresh &oauth2.Token{}
DecodeToken(data) ==
    CASE data.k = "object" ->
            [tok |-> Token(Field(data.members, "access_token", ""),
                           Field(data.members, "token_type", ""),
                           Field(data.members, "refresh_token", ""),
                           Field(data.members, "expiry", ZeroTime)),
             err |-> NoErr]
      [] data.k = "null" -> [tok |-> ZeroToken, err |-> NoErr]
      [] data.k = "empty" -> [tok |-> ZeroToken, err |-> Err("EOF")]
      [] OTHER -> [tok |-> ZeroToken, err |-> ErrSyntax]

\* the token file's directory and the token file
NoDir == [exists |-> FALSE, mode |-> {}]
Dir(m) == [exists |-> TRUE, mode |-> m]
NoFile == [exists |-> FALSE, mode |-> {}, data |-> EmptyData]
File(m, d) == [exists |-> TRUE, mode |-> m, data |-> d]
FileSystem(umask, parentWritable, dir, file) ==
    [umask |-> umask, parentWritable |-> parentWritable, dir |-> dir, file |-> file]

\* os.MkdirAll(dir, perm): nothing to do when the directory exists
MkdirAll(f, perm) ==
    IF f.dir.exists THEN [fs |-> f, err |-> NoErr]
    ELSE IF f.parentWritable
         THEN [fs |-> [f EXCEPT !.dir = Dir(perm \ f.umask)], err |-> NoErr]
         ELSE [fs |-> f, err |-> Err("mkdir: permission denied")]

\* os.OpenFile(name, O_RDWR|O_CREATE|O_TRUNC, perm): an existing file is
\* truncated and keeps its mode, a new one gets perm less the umask
OpenFileTrunc(f, perm) ==
    IF f.file.exists
    THEN IF { "ur", "uw" } \subseteq f.file.mode /\ "ux" \in f.dir.mode
         THEN [fs |-> [f EXCEPT !.file.data = EmptyData], err |-> NoErr]
         ELSE [fs |-> f, err |-> Err("open: permission denied")]
    ELSE IF { "uw", "ux" } \subseteq f.dir.mode
         THEN [fs |-> [f EXCEPT !.file = File(perm \ f.umask, EmptyData)], err |-> NoErr]
         ELSE [fs |-> f, err |-> Err("open: permission denied")]

\* Config.saveToken; w is whether the device takes the write
saveToken(f, tok, w) ==
    LET d == MkdirAll(f, Perm0700)
        o == OpenFileTrunc(d.fs, Perm0600)
    IN  IF ~d.err.nil
        THEN [fs |-> d.fs, err |-> Err("unable to create token directory: " \o d.err.msg)]
        ELSE IF ~o.err.nil
        THEN [fs |-> o.fs, err |-> Err("unable to create token file: " \o o.err.msg)]
        ELSE IF w = "ok"
        THEN [fs |-> [o.fs EXCEPT !.file.data = EncodeToken(tok)], err |-> NoErr]
        ELSE [fs |-> o.fs, err |-> Err("write: no space left on device")]

\* Config.loadToken
loadToken(f) ==
    IF f.dir.exists /\ "ux" \in f.dir.mode /\ f.file.exists /\ "ur" \in f.file.mode
    THEN DecodeToken(f.file.data)
    ELSE [tok |-> ZeroToken, err |-> Err("open: no such file or permission denied")]

\* the tokens of the tests, and one without token type and refresh token
TestToken == Token("test-access-token", "Bearer", "test-refresh-token", "2026-01-01T01:00:00Z")
SecondToken == Token("second-access-token", "Bearer", "second-refresh-token", "2026-01-02T01:00:00Z")
BareToken == Token("bare-access-token", "", "", ZeroTime)
Tokens == { TestToken, SecondToken, BareToken }

\* what the token file holds before the program touches it
InitialFiles ==
    { NoFile,
      File(Perm0600, EncodeToken(TestToken)),
      File(Perm0644, EncodeToken(TestToken)),
      File(Perm0200, EncodeToken(TestToken)),
      File(Perm0600, GarbageData),
      File(Perm0600, NullData),
      File(Perm0600, EmptyData) }

\* the token file's directory before the program touches it: not there (a
\* fresh t.TempDir() subdirectory), private, open to others, or read-only
InitialStores ==
    { FileSystem(u, w, NoDir, NoFile) : u \in { Umask022, Umask077 }, w \in BOOLEAN }
    \cup { FileSystem(u, TRUE, Dir(m), f) :
             u \in { Umask022, Umask077 }, m \in { Perm0700, Perm0755, Perm0500 },
             f \in InitialFiles }

\* whether the device takes the bytes of a write
WriteOutcomes == { "ok", "fail" }

\* a saveToken call: its token, its error, and what loadToken gave before it
NoSave ==
    [called |-> FALSE, tok |-> ZeroToken, err |-> NoErr,
     before |-> [tok |-> ZeroToken, err |-> NoErr]]
NoLoad == [called |-> FALSE, tok |-> ZeroToken, err |-> NoErr]

-----------------------------------------------------------------------------
(* SpecStore: saveToken and loadToken called on one token file, in any     *)
(* order, as the store tests call them.                                     *)

InitStore ==
    /\ sheetsClient = "nil"
    /\ IdleCall
    /\ stdin = <<>>
    /\ pos = 0
    /\ stdout = <<>>
    /\ served = <<>>
    /\ logged = 0
    /\ pc = "off"
    /\ gor = <<>>
    /\ fs \in InitialStores
    /\ lastSave = NoSave
    /\ lastLoad = NoLoad
    /\ FlowIdle
    /\ ConfigIdle

\* err := config.saveToken(tok)
SaveTokenCall ==
    /\ \E tok \in Tokens, w \in WriteOutcomes :
         LET r == saveToken(fs, tok, w)
         IN  /\ fs' = r.fs
             /\ lastSave' = [called |-> TRUE, tok |-> tok, err |-> r.err,
                             before |-> loadToken(fs)]
    /\ lastLoad' = NoLoad
    /\ UNCHANGED << sheetsClient, callVars, mainVars, gor, flowVars, configVars >>

\* tok, err := config.loadToken()
LoadTokenCall ==
    /\ lastLoad' = [called |-> TRUE, tok |-> loadToken(fs).tok, err |-> loadToken(fs).err]
    /\ UNCHANGED << sheetsClient, callVars, mainVars, gor, fs, lastSave, flowVars, configVars >>

NextStore == SaveTokenCall \/ LoadTokenCall

SpecStore == InitStore /\ [][NextStore]_vars

-----------------------------------------------------------------------------
(* SpecAuth: one Config.GetClient call: the stored token, or the handshake *)
(* of getTokenFromWeb with its callback server, the goroutines of the       *)
(* callback handlers and the caller's context.                              *)

\* the number of callback requests that may reach the listener
MaxCallbacks == 2
Callbacks == 1..MaxCallbacks

\* the code= parameter of the k-th callback when it carries one
AuthCodes == << "auth-code-1", "auth-code-2", "auth-code-3", "auth-code-4" >>
AuthCode(k) == AuthCodes[k]

\* config.AuthCodeURL("state-token", ...): the state of every authorization URL
StateToken == "state-token"

\* a callback request: its code and its state ("" when it has none) and its
\* handler's position: "none" (not sent), "blocked" (at the channel send), "done"
Callback(code, state) == [code |-> code, state |-> state, at |-> "none"]

\* the token config.Exchange obtains for a code
ExchangeToken(code) ==
    Token("access-for-" \o code, "Bearer", "refresh-for-" \o code, "2026-01-01T01:00:00Z")

NoOutcome == [returned |-> FALSE, client |-> FALSE, tok |-> ZeroToken, err |-> NoErr]
ClientFor(tok) == [returned |-> TRUE, client |-> TRUE, tok |-> tok, err |-> NoErr]
Failure(err) == [returned |-> TRUE, client |-> FALSE, tok |-> ZeroToken, err |-> err]

NoHeld == [code |-> "", tok |-> ZeroToken, err |-> NoErr]
HeldCode(code) == [code |-> code, tok |-> ZeroToken, err |-> NoErr]
HeldToken(code, tok) == [code |-> code, tok |-> tok, err |-> NoErr]
HeldError(code, err) == [code |-> code, tok |-> ZeroToken, err |-> err]

\* the token file before GetClient is called
AuthStores ==
    { FileSystem(Umask022, TRUE, NoDir, NoFile),
      FileSystem(Umask022, FALSE, NoDir, NoFile),
      FileSystem(Umask022, TRUE, Dir(Perm0700), NoFile),
      FileSystem(Umask022, TRUE, Dir(Perm0700), File(Perm0600, EncodeToken(TestToken))),
      FileSystem(Umask022, TRUE, Dir(Perm0700), File(Perm0600, NullData)),
      FileSystem(Umask022, TRUE, Dir(Perm0700), File(Perm0600, GarbageData)),
      FileSystem(Umask022, TRUE, Dir(Perm0500), NoFile) }

InitAuth ==
    /\ sheetsClient = "nil"
    /\ IdleCall
    /\ stdin = <<>>
    /\ pos = 0
    /\ stdout = <<>>
    /\ served = <<>>
    /\ logged = 0
    /\ pc = "off"
    /\ gor = <<>>
    /\ fs \in AuthStores
    /\ lastSave = NoSave
    /\ lastLoad = NoLoad
    /\ gc = "start"
    /\ gcResult = NoOutcome
    /\ held = NoHeld
    /\ listener = "none"
    /\ callbacks \in { [k \in Callbacks |->
                            Callback(IF k \in withCode THEN AuthCode(k) ELSE "",
                                     IF k \in withState THEN StateToken ELSE "")] :
                         withCode \in SUBSET Callbacks, withState \in SUBSET Callbacks }
    /\ arrivals = <<>>
    /\ accepted = <<>>
    /\ exchanges = <<>>
    /\ urlEmitted = FALSE
    /\ ctx \in { "background", "live" }
    /\ endpoint \in { "grants", "refuses" }
    /\ session = 1
    /\ mux = FALSE
    /\ refresher = "none"
    /\ refreshed = FALSE
    /\ ConfigIdle

notFlow == << sheetsClient, callVars, mainVars, gor, configVars >>

\* mutant of NeedsHandshake: a stored token without access token also starts
\* the handshake
NeedsHandshakeWhenEmpty(loaded) == ~loaded.err.nil \/ loaded.tok.AccessToken = ""

\* GetClient: token, err := c.loadToken(); if err == nil { return client }
NeedsHandshake(loaded) == ~loaded.err.nil

\* GetClient up to its first branch: the stored token makes the client, and
\* saveTokenIfRefreshed, started as a goroutine, does nothing
LoadStoredToken ==
    /\ gc = "start"
    /\ lastLoad' = [called |-> TRUE, tok |-> loadToken(fs).tok, err |-> loadToken(fs).err]
    /\ IF NeedsHandshake(loadToken(fs))
       THEN gc' = "handshake" /\ UNCHANGED << gcResult, refresher >>
       ELSE /\ gc' = "returned"
            /\ gcResult' = ClientFor(loadToken(fs).tok)
            /\ refresher' = "started"
    /\ UNCHANGED << notFlow, fs, lastSave, held, listener, callbacks, arrivals, accepted,
                    exchanges, urlEmitted, ctx, endpoint, session, mux, refreshed >>

\* getTokenFromWeb: the channels are made, the handler is registered and the
\* goroutine that will run server.ListenAndServe is started; http.HandleFunc
\* panics when the pattern is already registered on http.DefaultServeMux
StartCallbackServer ==
    /\ gc = "handshake"
    /\ IF mux
       THEN gc' = "panic" /\ UNCHANGED << listener, mux >>
       ELSE gc' = "listening" /\ listener' = "pending" /\ mux' = TRUE
    /\ UNCHANGED << notFlow, storeVars, gcResult, held, callbacks, arrivals, accepted,
                    exchanges, urlEmitted, ctx, endpoint, session, refresher, refreshed >>

\* the goroutine runs server.ListenAndServe: the port is bound, or it is not
\* and the goroutine goes to send the error on errChan
ListenAndServe ==
    /\ listener = "pending"
    /\ listener' \in { "open", "failed" }
    /\ UNCHANGED << notFlow, procVars, storeVars, gc, gcResult, held, callbacks, arrivals, accepted,
                    exchanges, urlEmitted, ctx >>

\* the authorization URL is printed and getTokenFromWeb reaches its select
PrintAuthURL ==
    /\ gc = "listening"
    /\ gc' = "select"
    /\ urlEmitted' = TRUE
    /\ UNCHANGED << notFlow, procVars, storeVars, gcResult, held, listener, callbacks, arrivals,
                    accepted, exchanges, ctx >>

\* a request for /oauth/callback reaches the open listener: its handler runs
\* in its own goroutine up to its send on codeChan or errChan (unbuffered)
CallbackArrives(k) ==
    /\ listener = "open"
    /\ callbacks[k].at = "none"
    /\ callbacks' = [callbacks EXCEPT ![k].at = "blocked"]
    /\ arrivals' = Append(arrivals, k)
    /\ UNCHANGED << notFlow, procVars, storeVars, gc, gcResult, held, listener, accepted, exchanges,
                    urlEmitted, ctx >>

\* select, case code = <-codeChan: a handler blocked with a code is received
\* from; it returns and its response is sent
ReceiveCode(k) ==
    /\ gc = "select"
    /\ callbacks[k].at = "blocked"
    /\ callbacks[k].code # ""
    /\ callbacks' = [callbacks EXCEPT ![k].at = "done"]
    /\ accepted' = Append(accepted, k)
    /\ held' = HeldCode(callbacks[k].code)
    /\ gc' = "exchange"
    /\ UNCHANGED << notFlow, procVars, storeVars, gcResult, listener, arrivals, exchanges,
                    urlEmitted, ctx >>

\* select, case err := <-errChan, sent by a handler whose request had no code
ReceiveCallbackError(k) ==
    /\ gc = "select"
    /\ callbacks[k].at = "blocked"
    /\ callbacks[k].code = ""
    /\ callbacks' = [callbacks EXCEPT ![k].at = "done"]
    /\ accepted' = Append(accepted, k)
    /\ held' = HeldError("", Err("no code in OAuth callback"))
    /\ gc' = "shutdown"
    /\ UNCHANGED << notFlow, procVars, storeVars, gcResult, listener, arrivals, exchanges,
                    urlEmitted, ctx >>

\* select, case err := <-errChan, sent by the goroutine whose bind failed
ReceiveListenError ==
    /\ gc = "select"
    /\ listener = "failed"
    /\ listener' = "reported"
    /\ held' = HeldError("", Err("failed to start OAuth callback server: address already in use"))
    /\ gc' = "shutdown"
    /\ UNCHANGED << notFlow, procVars, storeVars, gcResult, callbacks, arrivals, accepted, exchanges,
                    urlEmitted, ctx >>

\* select, case <-ctx.Done()
ReceiveCancel ==
    /\ gc = "select"
    /\ ctx = "done"
    /\ held' = HeldError("", Err("context cancelled"))
    /\ gc' = "shutdown"
    /\ UNCHANGED << notFlow, procVars, storeVars, gcResult, listener, callbacks, arrivals, accepted,
                    exchanges, urlEmitted, ctx >>

\* token, err = config.Exchange(ctx, code): the request to the token endpoint
\* is made with ctx, so it fails when ctx is done; else the endpoint answers
\* with a token or refuses
ExchangeCode ==
    /\ gc = "exchange"
    /\ exchanges' = Append(exchanges, held.code)
    /\ held' = IF ctx = "done"
               THEN HeldError(held.code,
                              Err("unable to exchange code for token: context canceled"))
               ELSE IF endpoint = "grants"
               THEN HeldToken(held.code, ExchangeToken(held.code))
               ELSE HeldError(held.code,
                              Err("unable to exchange code for token: oauth2: cannot fetch token"))
    /\ gc' = "shutdown"
    /\ UNCHANGED << notFlow, procVars, storeVars, gcResult, listener, callbacks, arrivals, accepted,
                    urlEmitted, ctx >>

\* mutant of Shutdown: the listener is left as it is
ShutdownLeavesListener ==
    /\ gc = "shutdown"
    /\ gc' = "draining"
    /\ UNCHANGED << notFlow, procVars, storeVars, gcResult, held, listener, callbacks, arrivals,
                    accepted, exchanges, urlEmitted, ctx >>

\* server.Shutdown(ctx) is called: the listener is closed at once
Shutdown ==
    /\ gc = "shutdown"
    /\ gc' = "draining"
    /\ listener' = IF listener \in { "pending", "open" } THEN "closed" ELSE listener
    /\ UNCHANGED << notFlow, procVars, storeVars, gcResult, held, callbacks, arrivals, accepted,
                    exchanges, urlEmitted, ctx >>

\* mutant of ShutdownReturns: GetClient goes on to save and to return a client
\* whatever getTokenFromWeb returned
ShutdownReturnsThenSaves ==
    /\ gc = "draining"
    /\ \/ \A k \in Callbacks : callbacks[k].at # "blocked"
       \/ ctx = "done"
    /\ gc' = "save"
    /\ UNCHANGED << notFlow, procVars, storeVars, gcResult, held, listener, callbacks, arrivals,
                    accepted, exchanges, urlEmitted, ctx >>

\* Shutdown returns once no handler is running any more, or ctx is done;
\* getTokenFromWeb returns what it holds, and GetClient its error
ShutdownReturns ==
    /\ gc = "draining"
    /\ \/ \A k \in Callbacks : callbacks[k].at # "blocked"
       \/ ctx = "done"
    /\ IF held.err.nil
       THEN gc' = "save" /\ UNCHANGED gcResult
       ELSE /\ gc' = "returned"
            /\ gcResult' = Failure(Err("unable to get token from web: " \o held.err.msg))
    /\ UNCHANGED << notFlow, procVars, storeVars, held, listener, callbacks, arrivals, accepted,
                    exchanges, urlEmitted, ctx >>

\* GetClient: c.saveToken(token), whose error is only logged, then the client
SaveNewToken ==
    /\ gc = "save"
    /\ \E w \in WriteOutcomes :
         /\ fs' = saveToken(fs, held.tok, w).fs
         /\ lastSave' = [called |-> TRUE, tok |-> held.tok,
                         err |-> saveToken(fs, held.tok, w).err, before |-> loadToken(fs)]
    /\ gc' = "returned"
    /\ gcResult' = ClientFor(held.tok)
    /\ UNCHANGED << notFlow, procVars, lastLoad, held, listener, callbacks, arrivals, accepted,
                    exchanges, urlEmitted, ctx >>

\* the caller cancels its context
CancelContext ==
    /\ ctx = "live"
    /\ gc # "returned"
    /\ ctx' = "done"
    /\ UNCHANGED << notFlow, procVars, storeVars, gc, gcResult, held, listener, callbacks, arrivals,
                    accepted, exchanges, urlEmitted >>

\* go c.saveTokenIfRefreshed(ctx, client, token): the function body is empty
SaveTokenIfRefreshed ==
    /\ refresher = "started"
    /\ refresher' = "ended"
    /\ UNCHANGED << notFlow, storeVars, gc, gcResult, held, listener, callbacks, arrivals,
                    accepted, exchanges, urlEmitted, ctx, endpoint, session, mux, refreshed >>

\* the token the transport obtains with the refresh token
Refreshed(tok) ==
    Token("refreshed-" \o tok.AccessToken, tok.TokenType, tok.RefreshToken,
          "2026-01-01T02:00:00Z")

\* the token the returned client uses
CurrentToken == IF refreshed THEN Refreshed(gcResult.tok) ELSE gcResult.tok

\* the returned client is used after its token expired: the transport of
\* config.Client refreshes the token in memory
TransportRefresh ==
    /\ gc = "returned"
    /\ gcResult.client
    /\ gcResult.tok.RefreshToken # ""
    /\ ~refreshed
    /\ refreshed' = TRUE
    /\ UNCHANGED << notFlow, storeVars, gc, gcResult, held, listener, callbacks, arrivals,
                    accepted, exchanges, urlEmitted, ctx, endpoint, session, mux, refresher >>

\* the number of GetClient calls of one process
MaxSessions == 2

\* the process calls GetClient again after an earlier call has returned: the
\* call starts afresh, with the token file, http.DefaultServeMux and the
\* handler goroutines as the earlier calls left them
CallAgain ==
    /\ gc = "returned"
    /\ session < MaxSessions
    /\ session' = session + 1
    /\ gc' = "start"
    /\ gcResult' = NoOutcome
    /\ held' = NoHeld
    /\ listener' = "none"
    /\ arrivals' = <<>>
    /\ accepted' = <<>>
    /\ exchanges' = <<>>
    /\ urlEmitted' = FALSE
    /\ lastSave' = NoSave
    /\ lastLoad' = NoLoad
    /\ refresher' = "none"
    /\ refreshed' = FALSE
    /\ UNCHANGED << notFlow, fs, callbacks, ctx, endpoint, mux >>

\* the steps of the program and of the token endpoint, as opposed to those of
\* the browser (CallbackArrives) and of the caller (CancelContext, CallAgain,
\* TransportRefresh)
ProgramStep ==
    \/ LoadStoredToken
    \/ StartCallbackServer
    \/ ListenAndServe
    \/ PrintAuthURL
    \/ \E k \in Callbacks : ReceiveCode(k)
    \/ \E k \in Callbacks : ReceiveCallbackError(k)
    \/ ReceiveListenError
    \/ ReceiveCancel
    \/ ExchangeCode
    \/ Shutdown
    \/ ShutdownReturns
    \/ SaveNewToken
    \/ SaveTokenIfRefreshed

NextAuth ==
    \/ LoadStoredToken
    \/ StartCallbackServer
    \/ ListenAndServe
    \/ PrintAuthURL
    \/ \E k \in Callbacks : CallbackArrives(k)
    \/ \E k \in Callbacks : ReceiveCode(k)
    \/ \E k \in Callbacks : ReceiveCallbackError(k)
    \/ ReceiveListenError
    \/ ReceiveCancel
    \/ ExchangeCode
    \/ Shutdown
    \/ ShutdownReturns
    \/ SaveNewToken
    \/ CancelContext
    \/ SaveTokenIfRefreshed
    \/ TransportRefresh
    \/ CallAgain

SpecAuth == InitAuth /\ [][NextAuth]_vars

\* SpecAuthFair: SpecAuth in which every goroutine of the program that can
\* take a step eventually takes one
SpecAuthFair == SpecAuth /\ WF_vars(ProgramStep)

-----------------------------------------------------------------------------
(* SpecBoot: the process from its start: main builds the server with       *)
(* NewMCPServer and then runs the request loop of SpecMain.                 *)

\* GOOGLE_APPLICATION_CREDENTIALS: not set, naming a file from which no
\* service can be made, or naming a usable service account file
AppCredentials == { "unset", "unusable", "usable" }

InitBoot ==
    /\ sheetsClient = "nil"
    /\ IdleCall
    /\ stdin \in InputStreams
    /\ pos = 0
    /\ stdout = <<>>
    /\ served = <<>>
    /\ logged = 0
    /\ pc = "start"
    /\ gor = <<>>
    /\ fs \in AuthStores
    /\ lastSave = NoSave
    /\ lastLoad = NoLoad
    /\ FlowIdle
    /\ ConfigIdle

\* main up to its loop: NewMCPServer reads GOOGLE_APPLICATION_CREDENTIALS and
\* makes the sheets service from that file; any error is fatal
StartServer ==
    /\ pc = "start"
    /\ \E cred \in AppCredentials :
         IF cred = "usable"
         THEN sheetsClient' = "live" /\ pc' = "loop"
         ELSE sheetsClient' = sheetsClient /\ pc' = "fatal"
    /\ UNCHANGED << callVars, stdin, pos, stdout, served, logged, restVars >>

NextBoot == StartServer \/ NextMain

SpecBoot == InitBoot /\ [][NextBoot]_vars

-----------------------------------------------------------------------------
(* SpecConfig: oauth.LoadConfig, a function of the environment variables    *)
(* and of the credential files it finds.                                    *)

TokenFileName == "token.json"
RedirectURI == "http://localhost:8080/oauth/callback"

\* an "installed" or "web" block of a credentials file
Block(id, secret, uris) == [client_id |-> id, client_secret |-> secret, redirect_uris |-> uris]
NoBlock == Block("", "", <<>>)

\* a credentials file: absent, not JSON, or a JSON object with its blocks
NoCredentials == [exists |-> FALSE, json |-> FALSE, installed |-> NoBlock, web |-> NoBlock]
BadCredentials == [exists |-> TRUE, json |-> FALSE, installed |-> NoBlock, web |-> NoBlock]
Credentials(installed, web) ==
    [exists |-> TRUE, json |-> TRUE, installed |-> installed, web |-> web]

\* the files a place can hold; the client ids name the place and the block
CredentialFiles(place) ==
    LET installed == Block(place \o "-installed-id", place \o "-installed-secret",
                           << "http://localhost:9090/" \o place, "http://localhost:9091/" >>)
        web == Block(place \o "-web-id", place \o "-web-secret", <<>>)
    IN  { NoCredentials,
          BadCredentials,
          Credentials(NoBlock, NoBlock),
          Credentials(installed, NoBlock),
          Credentials(NoBlock, web),
          Credentials(installed, web) }

\* the environment: the variables LoadConfig reads ("" when unset) and the
\* file at GOOGLE_OAUTH_CREDENTIALS, in ~/.config/mcp-google-sheets and in
\* the current directory
ConfigEnvs ==
    [ clientID : { "", "env-client-id" },
      clientSecret : { "", "env-client-secret" },
      credPath : { "", "/custom/creds.json" },
      redirectURI : { "", "http://localhost:7070/cb" },
      tokenFile : { "", "/custom/token.json" },
      custom : CredentialFiles("custom"),
      home : CredentialFiles("home"),
      cwd : CredentialFiles("cwd") ]

Config(id, secret, redirect, tokenFile) ==
    [called |-> TRUE, err |-> NoErr, ClientID |-> id, ClientSecret |-> secret,
     RedirectURI |-> redirect, TokenFile |-> tokenFile]
ConfigError(err) ==
    [called |-> TRUE, err |-> err, ClientID |-> "", ClientSecret |-> "",
     RedirectURI |-> "", TokenFile |-> ""]
NoConfig ==
    [called |-> FALSE, err |-> NoErr, ClientID |-> "", ClientSecret |-> "",
     RedirectURI |-> "", TokenFile |-> ""]

getRedirectURI(e) == IF e.redirectURI # "" THEN e.redirectURI ELSE RedirectURI

getTokenFilePath(e) ==
    IF e.tokenFile # "" THEN e.tokenFile
    ELSE "~/.config/mcp-google-sheets/" \o TokenFileName

\* the file LoadConfig reads: the one GOOGLE_OAUTH_CREDENTIALS names, else
\* the one under ~/.config when os.Stat finds it, else the one in the
\* current directory
CredentialsFile(e) ==
    IF e.credPath # "" THEN e.custom
    ELSE IF e.home.exists THEN e.home
    ELSE e.cwd

LoadConfig(e) ==
    LET file == CredentialsFile(e)
        block == IF file.installed.client_id # "" THEN file.installed ELSE file.web
    IN  IF e.clientID # "" /\ e.clientSecret # ""
        THEN Config(e.clientID, e.clientSecret, getRedirectURI(e), getTokenFilePath(e))
        ELSE IF ~file.exists
        THEN ConfigError(Err("unable to read OAuth credentials file"))
        ELSE IF ~file.json
        THEN ConfigError(Err("unable to parse OAuth credentials"))
        ELSE IF block.client_id = ""
        THEN ConfigError(Err("no valid OAuth credentials found in file"))
        ELSE Config(block.client_id, block.client_secret,
                    IF Len(block.redirect_uris) > 0 THEN block.redirect_uris[1]
                    ELSE RedirectURI,
                    getTokenFilePath(e))

InitConfig ==
    /\ sheetsClient = "nil"
    /\ IdleCall
    /\ stdin = <<>>
    /\ pos = 0
    /\ stdout = <<>>
    /\ served = <<>>
    /\ logged = 0
    /\ pc = "off"
    /\ gor = <<>>
    /\ fs = <<>>
    /\ lastSave = <<>>
    /\ lastLoad = <<>>
    /\ gc = "start"
    /\ gcResult = <<>>
    /\ held = <<>>
    /\ listener = "none"
    /\ callbacks = <<>>
    /\ arrivals = <<>>
    /\ accepted = <<>>
    /\ exchanges = <<>>
    /\ urlEmitted = FALSE
    /\ ctx = "background"
    /\ ProcIdle
    /\ cenv \in ConfigEnvs
    /\ cfg = NoConfig

\* config, err := LoadConfig()
LoadConfigCall ==
    /\ ~cfg.called
    /\ cfg' = LoadConfig(cenv)
    /\ UNCHANGED << sheetsClient, callVars, mainVars, gor, storeVars, flowVars, cenv >>

NextConfig == LoadConfigCall

SpecConfig == InitConfig /\ [][NextConfig]_vars

-----------------------------------------------------------------------------
(* The claims.                                                              *)

IsToolsCall == outcome # "idle" /\ req.method = "tools/call"
ReturnedCall == outcome = "returned"

\* the tool name and the arguments as the request's params carry them
RequestedName ==
    IF req.params.k = "object" /\ req.params.name.k = "string" THEN req.params.name.s ELSE ""
RequestedArgs == IF req.params.k = "object" THEN req.params.arguments ELSE ArgsNil

\* params from which the {name, arguments} envelope decodes
ParamsDecode ==
    \/ req.params.k = "null"
    \/ req.params.k = "object" /\ req.params.name.k \in {"missing", "null", "string"}

EightTools ==
    << "read_sheet", "write_sheet", "append_sheet", "create_spreadsheet",
       "get_spreadsheet_info", "add_sheet", "clear_sheet", "batch_update" >>
EightToolNames == { EightTools[i] : i \in 1..Len(EightTools) }

\* C1: every response handleRequest returns carries exactly one of result and
\* error, in the MCPResponse and in its JSON encoding: never both, never neither.
C1_ExactlyOneOfResultOrError ==
    ReturnedCall =>
        /\ resp.result.nil # resp.error.nil
        /\ out.hasResult # out.hasError
        /\ out.hasResult = ~resp.result.nil

\* C1 witness: an error response (invalid params) and no result.
C1_Witness ==
    /\ ReturnedCall
    /\ req.method = "tools/call"
    /\ ~resp.error.nil
    /\ resp.error.code = CodeInvalidParams
    /\ resp.result.nil
    /\ ~out.hasResult

\* C2: handleRequest never crashes: every call returns a response; and a
\* tools/call naming a registered tool with decodable arguments, on a server
\* whose client has no service, returns an error with code -32000.
C2_AlwaysAnEnvelope ==
    /\ outcome # "panic"
    /\ ( /\ IsToolsCall
         /\ sheetsClient = "noService"
         /\ ParamsDecode
         /\ RequestedName \in EightToolNames
         /\ UnmarshalArgs(RequestedName, RequestedArgs).nil )
       => ( /\ ReturnedCall
            /\ ~resp.error.nil
            /\ resp.error.code = -32000 )

\* C3: the response to a request line carries the line's id unchanged in value
\* and JSON type: number, string, null stay what they are, absent stays absent.
C3_IdEchoedOnTheWire ==
    (ReturnedCall /\ ~line.direct) => out.id = line.id

\* C4: a request is answered "Method not found: <method>" exactly when its
\* method is none of initialize, tools/list, tools/call, ping (case-sensitive);
\* then the code is -32601, there is no result and no backend operation ran.
C4_MethodNotFound ==
    ReturnedCall =>
        LET notFound == /\ ~resp.error.nil
                        /\ resp.error.message = "Method not found: " \o req.method
        IN  /\ notFound <=> req.method \notin {"initialize", "tools/list", "tools/call", "ping"}
            /\ notFound => /\ resp.error.code = -32601
                           /\ ~resp.error.hasData
                           /\ resp.result.nil
                           /\ calls = <<>>

\* C4 witness: a method that differs from a known one only in case.
C4_Witness ==
    /\ ReturnedCall
    /\ req.method = "Ping"
    /\ resp.error.code = -32601
    /\ resp.error.message = "Method not found: Ping"

\* C5: every tools/call whose params is not a validly structured
\* {name: string, arguments} object (absent, not JSON, null, array, scalar, or
\* an object whose name is no string) is answered -32602 "Invalid params" with
\* the decode error as data, and no backend operation runs.
C5_InvalidParams ==
    ( /\ IsToolsCall
      /\ \/ req.params.k \in {"nil", "malformed", "null", "array", "number", "string"}
         \/ req.params.k = "object" /\ req.params.name.k \in {"null", "number"} )
    => ( /\ ReturnedCall
         /\ ~resp.error.nil
         /\ resp.error.code = -32602
         /\ resp.error.message = "Invalid params"
         /\ resp.error.hasData
         /\ calls = <<>> )

\* C6: a tools/call whose params decode is answered "Tool not found: <name>"
\* with code -32601 exactly when the name is none of the 8 tool names that
\* tools/list advertises; then no backend operation runs. The dispatch table
\* and the registry name the same set.
C6_ToolNotFound ==
    /\ { ToolRegistry[i].name : i \in 1..Len(ToolRegistry) } = EightToolNames
    /\ DispatchTable = EightToolNames
    /\ (ReturnedCall /\ IsToolsCall /\ ParamsDecode) =>
         LET notFound == /\ ~resp.error.nil
                         /\ resp.error.message = "Tool not found: " \o RequestedName
         IN  /\ notFound <=> RequestedName \notin EightToolNames
             /\ notFound => /\ resp.error.code = -32601
                            /\ ~resp.error.hasData
                            /\ resp.result.nil
                            /\ calls = <<>>

\* C6 witness: a name that differs from a tool's only in case, with arguments
\* the tool would accept.
C6_Witness ==
    /\ ReturnedCall
    /\ IsToolsCall
    /\ RequestedName = "Read_Sheet"
    /\ RequestedArgs = ArgsValid
    /\ resp.error.message = "Tool not found: Read_Sheet"
    /\ calls = <<>>

ClientErrorPrefixes ==
    { "unable to retrieve data from sheet: ", "unable to write data to sheet: ",
      "unable to append data to sheet: ", "unable to create spreadsheet: ",
      "unable to retrieve spreadsheet info: ", "unable to add sheet: ",
      "unable to clear sheet: ", "unable to batch update: " }

ArgumentsFail ==
    /\ IsToolsCall
    /\ ParamsDecode
    /\ RequestedName \in EightToolNames
    /\ ~UnmarshalArgs(RequestedName, RequestedArgs).nil

BackendFailed == IsToolsCall /\ calls # <<>> /\ backend.k = "error"

\* C7: when a recognised tool's arguments do not decode or its backend call
\* fails, the response is an error with code -32000, the failure's own
\* description as message and no data; the backend is called at most once per
\* tools/call and not at all when the arguments do not decode.
C7_ExecutionFailure ==
    /\ Len(calls) <= 1
    /\ ArgumentsFail =>
         /\ ReturnedCall
         /\ calls = <<>>
         /\ resp.error.message = UnmarshalArgs(RequestedName, RequestedArgs).msg
    /\ BackendFailed =>
         /\ ReturnedCall
         /\ \E prefix \in ClientErrorPrefixes : resp.error.message = prefix \o backend.e
    /\ (ArgumentsFail \/ BackendFailed \/ (IsToolsCall /\ ~toolErr.nil)) =>
         /\ ~resp.error.nil
         /\ resp.error.code = -32000
         /\ resp.error.message = toolErr.msg
         /\ ~resp.error.hasData
         /\ resp.result.nil

\* C7 witness: the backend call of a recognised tool failed, after one call.
C7_Witness ==
    /\ BackendFailed
    /\ ReturnedCall
    /\ Len(calls) = 1
    /\ resp.error.code = -32000

\* C7 second case reached as well: the arguments did not decode.
C7_WitnessArguments ==
    /\ ArgumentsFail
    /\ ReturnedCall
    /\ resp.error.code = -32000

BackendSucceeded == IsToolsCall /\ ReturnedCall /\ calls # <<>> /\ backend.k # "error"

\* C8: when a recognised tool's backend call succeeds, the response has no
\* error and its result content is exactly one element of type "text" whose
\* text is the string form (%v) of the value the backend operation returned.
C8_ResultContent ==
    BackendSucceeded =>
        /\ resp.error.nil
        /\ ~resp.result.nil
        /\ resp.result.kind = "content"
        /\ Len(resp.result.v.content) = 1
        /\ resp.result.v.content[1].type = "text"
        /\ resp.result.v.content[1].text = FmtV(toolResult)
        /\ toolResult # <<>>
        /\ (RequestedName = "read_sheet" /\ backend.k = "empty") =>
             resp.result.v.content[1].text =
               "map[message:No data found range:" \o backend.v \o " values:[]]"
        /\ (RequestedName = "clear_sheet") =>
             resp.result.v.content[1].text =
               "map[cleared_range:" \o backend.v \o " message:Range cleared successfully]"

\* C8 witness: read_sheet answered with no data.
C8_Witness ==
    /\ BackendSucceeded
    /\ RequestedName = "read_sheet"
    /\ backend.k = "empty"
    /\ resp.error.nil

\* C9: every tools/list call, whatever its params and whatever was handled
\* before, returns the 8 descriptors in the fixed order; each has a non-empty
\* description, a schema of type object with non-empty properties, and a
\* required list whose every entry is a key of properties.
C9_ToolsList ==
    (outcome # "idle" /\ req.method = "tools/list") =>
        /\ ReturnedCall
        /\ resp.error.nil
        /\ resp.result.kind = "tools"
        /\ calls = <<>>
        /\ LET tools == resp.result.v.tools
           IN  /\ Len(tools) = 8
               /\ \A i \in 1..Len(tools) :
                    /\ tools[i].name = EightTools[i]
                    /\ tools[i].description # ""
                    /\ tools[i].inputSchema.type = "object"
                    /\ DOMAIN tools[i].inputSchema.properties # {}
                    /\ \A j \in 1..Len(tools[i].inputSchema.required) :
                         tools[i].inputSchema.required[j]
                           \in DOMAIN tools[i].inputSchema.properties

\* C9 witness: tools/list called with params it ignores.
C9_Witness ==
    /\ ReturnedCall
    /\ req.method = "tools/list"
    /\ req.params.k = "object"
    /\ Len(resp.result.v.tools) = 8

\* the indexes of the request lines among the first n lines, in input order
RECURSIVE RequestLines(_)
RequestLines(n) ==
    IF n = 0 THEN <<>>
    ELSE IF stdin[n].len > 0 /\ stdin[n].kind = "request"
         THEN Append(RequestLines(n - 1), n)
         ELSE RequestLines(n - 1)

\* C10: the main loop handles the lines in order until the end of the input:
\* one response for each non-empty line that decodes as a request, in input
\* order, nothing for a blank or malformed line, and no line (malformed, or of
\* any length) stops the loop or the process before the lines after it.
C10_EveryLineHandled ==
    /\ served = RequestLines(pos)
    /\ Len(stdout) = Len(served)
    /\ pc \in {"loop", "exit"}
    /\ pc = "exit" => pos = Len(stdin)

\* the result a method returns when its request is the only one in flight
ResultAlone(m) ==
    CASE m = "ping" -> Result("ping", <<>>)
      [] m = "initialize" ->
            Result("initialize",
                   [protocolVersion |-> "2024-11-05",
                    serverInfo |-> [name |-> serverName, version |-> serverVersion],
                    capabilities |-> [tools |-> {}]])
      [] m = "tools/list" -> Result("tools", [tools |-> ToolRegistry])

\* C11: handleRequest calls (ping, initialize, tools/list) that run at the
\* same time on one server each return the response they return when run
\* alone, with no error and their own id, in every interleaving; the server
\* is left as it was.
C11_ConcurrentCallsIndependent ==
    \A i \in DOMAIN gor :
        gor[i].at = "returned" =>
            /\ gor[i].resp.error.nil
            /\ gor[i].resp.id = GoInt(i)
            /\ gor[i].resp.result = ResultAlone(gor[i].req.method)

\* C11 witness: all calls were in flight together and the first has returned
\* its initialize result while the others, of other methods, are still running.
C11_Witness ==
    /\ gor # <<>>
    /\ gor[1].at = "returned"
    /\ gor[1].req.method = "initialize"
    /\ gor[1].resp.result = ResultAlone("initialize")
    /\ gor[2].at = "called" /\ gor[2].req.method = "ping"
    /\ gor[3].at = "called" /\ gor[3].req.method = "tools/list"

\* C12: ping always returns the empty result object and initialize the same
\* fixed result, with no error, whatever the params and whatever was handled
\* before; handling them runs no backend operation and leaves the server as
\* it was.
C12_PingInitializeFixed ==
    [][ (outcome' = "returned" /\ req'.method \in {"ping", "initialize"}) =>
            /\ resp'.error.nil
            /\ resp'.result = ResultAlone(req'.method)
            /\ out'.hasResult /\ ~out'.hasError
            /\ calls' = <<>>
            /\ sheetsClient' = sheetsClient ]_vars

\* C12 witness: an initialize request that carries params got the fixed result.
C12_Witness ==
    /\ ReturnedCall
    /\ req.method = "initialize"
    /\ req.params # ParamsNil
    /\ resp.result.kind = "initialize"
    /\ resp.result.v.protocolVersion = "2024-11-05"

\* a successful saveToken has just returned
SavedOk == lastSave.called /\ lastSave.err.nil

\* C17: after every successful saveToken the token file and its directory
\* grant no permission to group or others, whether or not they existed before.
C17_StoreIsPrivate ==
    SavedOk =>
        /\ fs.file.mode \cap GroupOtherBits = {}
        /\ fs.dir.mode \cap GroupOtherBits = {}

\* C18: loadToken after a successful saveToken returns the access token,
\* refresh token and token type of the record last saved, and nothing of the
\* records saved or stored before it.
C18_SaveLoadRoundTrip ==
    (SavedOk /\ lastLoad.called) =>
        /\ lastLoad.err.nil
        /\ lastLoad.tok.AccessToken = lastSave.tok.AccessToken
        /\ lastLoad.tok.RefreshToken = lastSave.tok.RefreshToken
        /\ lastLoad.tok.TokenType = lastSave.tok.TokenType

\* C18 witness: the record without token type and refresh token was saved
\* and loaded back, with no refresh token.
C18_Witness ==
    /\ SavedOk
    /\ lastLoad.called
    /\ lastSave.tok = BareToken
    /\ lastLoad.tok.AccessToken = "bare-access-token"
    /\ lastLoad.tok.RefreshToken = ""

\* the handshake of getTokenFromWeb has been started
HandshakeStarted == gc \in { "handshake", "listening", "select", "exchange", "shutdown",
                            "draining", "save", "panic" } \/ listener # "none"

\* C13: GetClient starts the authorization handshake if and only if loading
\* the stored record fails; when the record loads, GetClient returns a client
\* for it without binding the listener, printing an authorization URL,
\* exchanging a code or writing to the credential store.
C13_HandshakeOnlyWhenLoadFails ==
    lastLoad.called =>
        /\ HandshakeStarted <=> ~lastLoad.err.nil
        /\ lastLoad.err.nil =>
             /\ gc = "returned"
             /\ gcResult.client
             /\ gcResult.tok = lastLoad.tok
             /\ listener = "none"
             /\ ~urlEmitted
             /\ exchanges = <<>>
             /\ ~lastSave.called
             /\ loadToken(fs) = [tok |-> lastLoad.tok, err |-> NoErr]

\* C13 witness: the stored test token loaded and GetClient returned its client.
C13_Witness ==
    /\ lastLoad.called
    /\ lastLoad.err.nil
    /\ gc = "returned"
    /\ gcResult.client
    /\ gcResult.tok = TestToken
    /\ listener = "none"

\* C14: with no loadable stored record, after one callback with a code and a
\* successful exchange, GetClient returns a client and at that moment the
\* credential store holds the record obtained from the exchange.
C14_ReturnedRecordIsStored ==
    ( /\ gc = "returned"
      /\ lastLoad.called /\ ~lastLoad.err.nil
      /\ Len(arrivals) = 1
      /\ exchanges # <<>>
      /\ held.err.nil )
    => ( /\ gcResult.client
         /\ loadToken(fs).err.nil
         /\ loadToken(fs).tok = ExchangeToken(exchanges[1]) )

\* C15: when the first callback to reach the listener carries no code, the
\* flow fails with the callback error: no code is exchanged, no record is
\* produced or stored, and GetClient returns no client.
C15_NoCodeCallbackFails ==
    (arrivals # <<>> /\ callbacks[arrivals[1]].code = "") =>
        /\ gc # "exchange"
        /\ exchanges = <<>>
        /\ ~lastSave.called
        /\ gcResult.returned =>
             /\ ~gcResult.client
             /\ ctx # "done" =>
                  gcResult.err.msg = "unable to get token from web: no code in OAuth callback"

\* a handler left at its channel send after the flow has left its select:
\* nothing will receive from it
Stranded(k) ==
    /\ callbacks[k].at = "blocked"
    /\ gc \in { "exchange", "shutdown", "draining", "save", "returned" }

\* C20: when two callbacks reach the listener in one session, only the first
\* to arrive is accepted and decides the outcome, at most one code is
\* exchanged, and the other request is rejected (its handler ends) without
\* changing the session.
C20_OnlyFirstCallbackAccepted ==
    Len(arrivals) >= 2 =>
        /\ Len(accepted) <= 1
        /\ Len(exchanges) <= 1
        /\ accepted # <<>> => accepted[1] = arrivals[1]
        /\ \A k \in DOMAIN callbacks : ~Stranded(k)

\* C16: the backend client is built from a credential obtained through
\* GetClient: when the request loop runs, GetClient has returned, and when no
\* OAuth token was stored the authorization URL was printed before.
C16_StartupAuthorizes ==
    pc = "loop" =>
        /\ gc = "returned"
        /\ ~loadToken(fs).err.nil => urlEmitted

\* the credentials file the stated precedence selects: the file named by
\* GOOGLE_OAUTH_CREDENTIALS, else the one in the current directory, else the
\* one under ~/.config/mcp-google-sheets
StatedFile ==
    IF cenv.credPath # "" THEN cenv.custom
    ELSE IF cenv.cwd.exists THEN cenv.cwd
    ELSE cenv.home

\* C19: LoadConfig takes GOOGLE_OAUTH_CLIENT_ID and _SECRET when both are set,
\* else the file named by GOOGLE_OAUTH_CREDENTIALS, else oauth_credentials.json
\* in the current directory, then the one under ~/.config/mcp-google-sheets;
\* in the file the installed block when it has a client_id, else the web
\* block, else it fails with "no valid OAuth credentials found in file"; the
\* redirect URI is the block's first redirect_uris entry, else the default.
C19_ConfigPrecedence ==
    cfg.called =>
        LET block == IF StatedFile.installed.client_id # "" THEN StatedFile.installed
                     ELSE StatedFile.web
        IN  IF cenv.clientID # "" /\ cenv.clientSecret # ""
            THEN /\ cfg.err.nil
                 /\ cfg.ClientID = cenv.clientID
                 /\ cfg.ClientSecret = cenv.clientSecret
            ELSE IF ~StatedFile.exists \/ ~StatedFile.json
            THEN ~cfg.err.nil
            ELSE IF block.client_id = ""
            THEN cfg.err.msg = "no valid OAuth credentials found in file"
            ELSE /\ cfg.err.nil
                 /\ cfg.ClientID = block.client_id
                 /\ cfg.ClientSecret = block.client_secret
                 /\ cfg.RedirectURI = IF Len(block.redirect_uris) > 0
                                      THEN block.redirect_uris[1]
                                      ELSE "http://localhost:8080/oauth/callback"

\* getTokenFromWeb is running: its handler is registered and it has not returned
InHandshake == gc \in { "listening", "select", "exchange", "shutdown", "draining" }

\* a callback has reached the listener, the bind has failed or the caller has
\* cancelled
SessionResolvable == arrivals # <<>> \/ listener = "failed" \/ ctx = "done"

\* C21: once a callback, a bind failure or the caller's cancellation has
\* occurred, getTokenFromWeb eventually returns to its caller, for any number
\* of callbacks and also when the context is never cancelled.
C21_FlowReturns ==
    (InHandshake /\ SessionResolvable) ~> (gc \in { "save", "returned" })

\* C22: every callback request served by the listener eventually gets its
\* response and its handler returns, also one that arrives after the session
\* was resolved.
C22_EveryHandlerReturns ==
    \A k \in Callbacks : (callbacks[k].at = "blocked") ~> (callbacks[k].at = "done")

\* getTokenFromWeb has returned to GetClient
FlowReturned == gc \in { "save", "returned" }

\* C23: in every state after getTokenFromWeb has returned, by any outcome, the
\* callback listener is closed and accepts no further callback.
C23_ListenerClosedAfterReturn ==
    FlowReturned =>
        /\ listener \notin { "pending", "open" }
        /\ \A k \in Callbacks : ~ENABLED CallbackArrives(k)

\* C23 witness: the flow returned a token after a callback, the listener closed.
C23_Witness ==
    /\ gc = "returned"
    /\ gcResult.client
    /\ arrivals # <<>>
    /\ urlEmitted
    /\ listener = "closed"

\* C24: cancellation ends the flow only while it waits for the callback; once
\* a code has been received and the exchange has begun, a cancellation does
\* not abort or fail the exchange, which completes or fails on its own.
C24_CancelOnlyWhileWaiting ==
    /\ gcResult.err = Err("unable to get token from web: context cancelled")
           => accepted = <<>>
    /\ (gc = "returned" /\ exchanges # <<>>) =>
           IF endpoint = "grants"
           THEN gcResult.client
           ELSE gcResult.err = Err("unable to get token from web: unable to exchange code "
                                   \o "for token: oauth2: cannot fetch token")

\* C25: a callback is accepted only if it carries the state token the session
\* put in its authorization URL; a callback whose state is missing or
\* different is never accepted and its code is never exchanged.
C25_CallbackCorrelates ==
    \A i \in DOMAIN accepted :
        /\ urlEmitted
        /\ callbacks[accepted[i]].state = StateToken

\* C26: a handshake started in the same process after an earlier handshake
\* has ended registers its callback handler and runs like a first one: it
\* does not crash.
C26_SessionsIndependent ==
    session > 1 => gc # "panic"

\* C27: replacing the stored record is atomic: when saveToken fails, a
\* subsequent loadToken still returns the record stored before, intact.
C27_ReplaceIsAtomic ==
    (lastSave.called /\ ~lastSave.err.nil /\ lastSave.before.err.nil) =>
        loadToken(fs) = lastSave.before

\* the authorization flow of this call has failed: getTokenFromWeb holds an error
FlowFailed == ~held.err.nil

\* C28: after any failure of the authorization flow (bind failure, callback
\* without code, cancellation, exchange failure) GetClient does nothing but
\* shut the listener down and return that failure: the flow has run once, at
\* most one code was exchanged, saveToken is not called and the credential
\* store still gives what it gave when the call loaded it.
C28_FailureIsFatal ==
    FlowFailed =>
        /\ gc \in { "shutdown", "draining", "returned" }
        /\ gc = "returned" =>
               gcResult = Failure(Err("unable to get token from web: " \o held.err.msg))
        /\ Len(accepted) <= 1
        /\ Len(exchanges) <= 1
        /\ ~lastSave.called
        /\ loadToken(fs) = [tok |-> lastLoad.tok, err |-> lastLoad.err]

\* C28 witness: the token endpoint refused the code and GetClient returned the
\* failure.
C28_Witness ==
    /\ FlowFailed
    /\ gc = "returned"
    /\ gcResult.returned
    /\ ~gcResult.client
    /\ endpoint = "refuses"
    /\ Len(exchanges) = 1

\* the client GetClient returned was made from the stored record
ReturnedStoredToken == gc = "returned" /\ gcResult.client /\ lastLoad.called /\ lastLoad.err.nil

\* C29: when a credential loaded from the store is later refreshed by the
\* transport, the refreshed record is eventually written to the credential
\* store.
C29_RefreshIsPersisted ==
    (ReturnedStoredToken /\ refreshed) ~> (loadToken(fs).tok = CurrentToken)

\* C30: when the listener cannot bind, the flow fails with the startup error
\* without having reached the wait for the callback: the authorization URL
\* was not emitted and no code was exchanged.
C30_BindFailureFailsAtOnce ==
    (gc = "returned" /\ listener = "reported") =>
        /\ gcResult = Failure(Err("unable to get token from web: failed to start OAuth "
                                  \o "callback server: address already in use"))
        /\ exchanges = <<>>
        /\ ~urlEmitted

====
